---------------------------- MODULE Spec2Model ----------------------------
(***************************************************************************)
(* The chess component of src/src/components/ChessGame.tsx: the computer   *)
(* opponent's scoring pass and move selection (evaluateAllMoves,           *)
(* selectMove and the evaluators they call) and the React component        *)
(* around them (the computer-move effect with its thinking timer,          *)
(* makeAMove, onDrop, resetGame, undoLastMove, the mode and difficulty     *)
(* controls).                                                              *)
(*                                                                         *)
(* chess.js is a library the component calls, not part of the repository.  *)
(* A position is modelled as the record of what chess.js reports of it:    *)
(* the fields of its FEN, whether the side to move is in check, and the    *)
(* list of legal moves, each move carrying the position it leads to (the   *)
(* "after" field of a chess.js verbose move).  A Chess object is a         *)
(* position with the undo history chess.js keeps.                          *)
(*                                                                         *)
(* Math.random() is modelled as a draw k in 0..RandDen-1 standing for the  *)
(* number k/RandDen; scores are kept in units of 1/RandDen centipawn so    *)
(* that they stay integers (ScoreUnit).                                    *)
(***************************************************************************)
EXTENDS Integers, Sequences, FiniteSets, TLC

(***************************************************************************)
(* Bounds of the model                                                     *)
(***************************************************************************)
\* Math.random() takes the values 0/RandDen .. (RandDen-1)/RandDen
RandDen == 5

\* the seconds a clock is followed second by second from its initial value
MaxTicks == 1

(***************************************************************************)
(* Program constants                                                       *)
(***************************************************************************)
Difficulties == {"Easy", "Medium", "Hard"}

PIECE_VALUES ==
  [t \in {"p", "n", "b", "r", "q", "k"} |->
     CASE t = "p" -> 100 [] t = "n" -> 320 [] t = "b" -> 330
       [] t = "r" -> 500 [] t = "q" -> 900 [] OTHER -> 20000]

THINKING_TIME ==
  [d \in Difficulties |->
     CASE d = "Easy" -> 3000 [] d = "Medium" -> 2000 [] OTHER -> 1000]

TIME_CONTROLS ==
  << [name |-> "1 min Bullet", initial |-> 60, increment |-> 0],
     [name |-> "3 min Blitz", initial |-> 180, increment |-> 0],
     [name |-> "5 min Blitz", initial |-> 300, increment |-> 0],
     [name |-> "10 min Rapid", initial |-> 600, increment |-> 0],
     [name |-> "15|10 Rapid", initial |-> 900, increment |-> 10] >>


PAWN_POSITION_SCORES ==
  <<   0,   0,   0,   0,   0,   0,   0,   0,
      50,  50,  50,  50,  50,  50,  50,  50,
      10,  10,  20,  30,  30,  20,  10,  10,
       5,   5,  10,  25,  25,  10,   5,   5,
       0,   0,   0,  20,  20,   0,   0,   0,
       5,  -5, -10,   0,   0, -10,  -5,   5,
       5,  10,  10, -20, -20,  10,  10,   5,
       0,   0,   0,   0,   0,   0,   0,   0 >>

KNIGHT_POSITION_SCORES ==
  << -50, -40, -30, -30, -30, -30, -40, -50,
     -40, -20,   0,   0,   0,   0, -20, -40,
     -30,   0,  10,  15,  15,  10,   0, -30,
     -30,   5,  15,  20,  20,  15,   5, -30,
     -30,   0,  15,  20,  20,  15,   0, -30,
     -30,   5,  10,  15,  15,  10,   5, -30,
     -40, -20,   0,   5,   5,   0, -20, -40,
     -50, -40, -30, -30, -30, -30, -40, -50 >>

BISHOP_POSITION_SCORES ==
  << -20, -10, -10, -10, -10, -10, -10, -20,
     -10,   5,   0,   0,   0,   0,   5, -10,
     -10,  10,  10,  10,  10,  10,  10, -10,
     -10,   0,  10,  10,  10,  10,   0, -10,
     -10,   5,   5,  10,  10,   5,   5, -10,
     -10,   0,   5,  10,  10,   5,   0, -10,
     -10,   0,   0,   0,   0,   0,   0, -10,
     -20, -10, -10, -10, -10, -10, -10, -20 >>

ROOK_POSITION_SCORES ==
  <<   0,   0,   0,   5,   5,   0,   0,   0,
      -5,   0,   0,   0,   0,   0,   0,  -5,
      -5,   0,   0,   0,   0,   0,   0,  -5,
      -5,   0,   0,   0,   0,   0,   0,  -5,
      -5,   0,   0,   0,   0,   0,   0,  -5,
      -5,   0,   0,   0,   0,   0,   0,  -5,
       5,  10,  10,  10,  10,  10,  10,   5,
       0,   0,   0,   0,   0,   0,   0,   0 >>

QUEEN_POSITION_SCORES ==
  << -20, -10, -10,  -5,  -5, -10, -10, -20,
     -10,   0,   0,   0,   0,   0,   0, -10,
     -10,   0,   5,   5,   5,   5,   0, -10,
      -5,   0,   5,   5,   5,   5,   0,  -5,
       0,   0,   5,   5,   5,   5,   0,  -5,
     -10,   5,   5,   5,   5,   5,   0, -10,
     -10,   0,   5,   0,   0,   0,   0, -10,
     -20, -10, -10,  -5,  -5, -10, -10, -20 >>

KING_MIDDLEGAME_SCORES ==
  <<  20,  30,  10,   0,   0,  10,  30,  20,
      20,  20,   0,   0,   0,   0,  20,  20,
     -10, -20, -20, -20, -20, -20, -20, -10,
     -20, -30, -30, -40, -40, -30, -30, -20,
     -30, -40, -40, -50, -50, -40, -40, -30,
     -30, -40, -40, -50, -50, -40, -40, -30,
     -30, -40, -40, -50, -50, -40, -40, -30,
     -30, -40, -40, -50, -50, -40, -40, -30 >>

KING_ENDGAME_SCORES ==
  << -50, -30, -30, -30, -30, -30, -30, -50,
     -30, -30,   0,   0,   0,   0, -30, -30,
     -30, -10,  20,  30,  30,  20, -10, -30,
     -30, -10,  30,  40,  40,  30, -10, -30,
     -30, -10,  30,  40,  40,  30, -10, -30,
     -30, -10,  20,  30,  30,  20, -10, -30,
     -30, -20, -10,   0,   0, -10, -20, -30,
     -50, -40, -30, -20, -20, -30, -40, -50 >>

(***************************************************************************)
(* Squares, pieces and positions as chess.js reports them                  *)
(***************************************************************************)
Files == <<"a", "b", "c", "d", "e", "f", "g", "h">>
Digits == <<"0", "1", "2", "3", "4", "5", "6", "7", "8", "9">>

\* "b".charCodeAt(0) - "a".charCodeAt(0)
FileIndex(c) ==
  (CHOOSE i \in 1..8 : Files[i] = c) - 1

\* parseInt of a one-digit string
ParseDigit(c) ==
  (CHOOSE i \in 1..10 : Digits[i] = c) - 1

\* Number.toString for a non-negative integer, as a sequence of characters
RECURSIVE ToDigits(_)
ToDigits(n) ==
  IF n < 10 THEN <<Digits[n + 1]>>
  ELSE ToDigits(n \div 10) \o <<Digits[(n % 10) + 1]>>

\* a square "b2" is the pair of its characters; row 0 is rank 8, col 0 is file a
Sq(f, r) == <<f, r>>
RowOf(sq) == 8 - ParseDigit(sq[2])
ColOf(sq) == FileIndex(sq[1])
Index(sq) == RowOf(sq) * 8 + ColOf(sq)

WhiteLetters == {"P", "N", "B", "R", "Q", "K"}
BlackLetters == {"p", "n", "b", "r", "q", "k"}

\* the piece type chess.js gives for a piece letter of the board
TypeOf(letter) ==
  CASE letter \in {"P", "p"} -> "p" [] letter \in {"N", "n"} -> "n"
    [] letter \in {"B", "b"} -> "b" [] letter \in {"R", "r"} -> "r"
    [] letter \in {"Q", "q"} -> "q" [] OTHER -> "k"

ColorOf(letter) == IF letter \in WhiteLetters THEN "w" ELSE "b"

\* board()[row][col]: the letter on the square, "" for an empty one
PieceAt(board, row, col) ==
  IF (row * 8 + col) \in DOMAIN board THEN board[row * 8 + col] ELSE ""

\* a position none of whose data the model holds: the move leading to it is
\* legal, but play is not followed through it
Horizon == [horizon |-> TRUE]

(***************************************************************************)
(* game.fen(): the six fields of the FEN as one sequence of characters     *)
(***************************************************************************)
RECURSIVE FenRow(_, _, _, _)
FenRow(board, row, col, empty) ==
  IF col = 8 THEN (IF empty > 0 THEN <<Digits[empty + 1]>> ELSE <<>>)
  ELSE IF PieceAt(board, row, col) = ""
       THEN FenRow(board, row, col + 1, empty + 1)
       ELSE (IF empty > 0 THEN <<Digits[empty + 1]>> ELSE <<>>)
            \o <<PieceAt(board, row, col)>> \o FenRow(board, row, col + 1, 0)

RECURSIVE FenPlacement(_, _)
FenPlacement(board, row) ==
  IF row = 7 THEN FenRow(board, 7, 0, 0)
  ELSE FenRow(board, row, 0, 0) \o <<"/">> \o FenPlacement(board, row + 1)

FenOf(pos) ==
  FenPlacement(pos.board, 0) \o <<" ", pos.turn, " ">> \o pos.castling
    \o <<" ">> \o pos.ep \o <<" ">> \o ToDigits(pos.half)
    \o <<" ">> \o ToDigits(pos.full)

\* fen.split(' ')[0]
RECURSIVE FirstField(_)
FirstField(s) ==
  IF s = <<>> \/ Head(s) = " " THEN <<>> ELSE <<Head(s)>> \o FirstField(Tail(s))

(***************************************************************************)
(* The Chess object: a position and the undo history chess.js keeps        *)
(***************************************************************************)
\* new Chess(fen): the position of the FEN, nothing to undo
Chess(pos) == [pos |-> pos, history |-> <<>>]

Fen(g) == FenOf(g.pos)

\* new Chess(g.fen())
CopyOf(g) == Chess(g.pos)

Turn(g) == g.pos.turn

\* g.moves({ verbose: true })
Moves(g) == g.pos.legal

RECURSIVE SelectFrom(_, _)
SelectFrom(moves, square) ==
  IF moves = <<>> THEN <<>>
  ELSE (IF Head(moves).from = square THEN <<Head(moves)>> ELSE <<>>)
       \o SelectFrom(Tail(moves), square)

\* g.moves({ square, verbose: true })
MovesFrom(g, square) == SelectFrom(Moves(g), square)

\* the legal moves a move object {from, to, promotion} stands for: the
\* promotion piece is compared only for a legal move that promotes
Matching(g, from, to, promotion) ==
  {i \in 1..Len(Moves(g)) :
     /\ Moves(g)[i].from = from
     /\ Moves(g)[i].to = to
     /\ (Moves(g)[i].promotion = "" \/ Moves(g)[i].promotion = promotion)}

\* g.move({from, to, promotion}): the Chess object after the call and the
\* move made, or ok = FALSE (chess.js throws, or returns null) and g as it was
Move(g, from, to, promotion) ==
  LET hits == Matching(g, from, to, promotion) IN
  IF hits = {} THEN [ok |-> FALSE, game |-> g, result |-> <<>>]
  ELSE LET m == Moves(g)[CHOOSE i \in hits : \A j \in hits : i <= j] IN
       [ok |-> TRUE,
        game |-> [pos |-> m.after,
                  history |-> Append(g.history, [move |-> m, before |-> g.pos])],
        result |-> m]

\* g.move(move) for a verbose move object of g.moves()
MoveObject(g, move) == Move(g, move.from, move.to, move.promotion)

\* an undo that takes nothing back: the fault C3 excludes
UndoNothing(g) == g

\* g.undo(): takes back the last move of the history, and does nothing when
\* the history is empty
Undo(g) ==
  IF g.history = <<>> THEN g
  ELSE [pos |-> g.history[Len(g.history)].before,
        history |-> SubSeq(g.history, 1, Len(g.history) - 1)]

IsCheck(g) == g.pos.inCheck
IsCheckmate(g) == g.pos.inCheck /\ Moves(g) = <<>>
IsStalemate(g) == ~g.pos.inCheck /\ Moves(g) = <<>>

CountType(board, t) == Cardinality({s \in DOMAIN board : TypeOf(board[s]) = t})

\* the colour of a square: (row + col) even or odd
SquareColor(s) == ((s \div 8) + (s % 8)) % 2

IsInsufficientMaterial(g) ==
  LET b == g.pos.board
      n == Cardinality(DOMAIN b)
      bishops == {s \in DOMAIN b : TypeOf(b[s]) = "b"}
  IN \/ n = 2
     \/ n = 3 /\ (CountType(b, "b") = 1 \/ CountType(b, "n") = 1)
     \/ /\ n = Cardinality(bishops) + 2
        /\ \A s, t \in bishops : SquareColor(s) = SquareColor(t)

\* the fifty-move rule: 100 half-moves without a capture or a pawn move
IsDrawByFiftyMoves(g) == g.pos.half >= 100

\* no position repeats three times within one Chess object here: every object
\* the component keeps is built from a FEN and makes at most one move
IsDraw(g) ==
  IsDrawByFiftyMoves(g) \/ IsStalemate(g) \/ IsInsufficientMaterial(g)

IsGameOver(g) == IsCheckmate(g) \/ IsDraw(g)

(***************************************************************************)
(* String helpers of the evaluators                                        *)
(***************************************************************************)
\* s.includes(sub), both sequences of characters
Includes(s, sub) ==
  \E i \in 0..(Len(s) - Len(sub)) : SubSeq(s, i + 1, i + Len(sub)) = sub

\* (s.match(/[...]/g) || []).length for a character class
CountChars(s, class) == Cardinality({i \in 1..Len(s) : s[i] \in class})

\* the least j >= from with s[j] = "p", or 0
NextPawnChar(s, from) ==
  IF \E j \in from..Len(s) : s[j] = "p"
  THEN CHOOSE j \in from..Len(s) : s[j] = "p" /\ \A k \in from..(j - 1) : s[k] # "p"
  ELSE 0

\* (s.match(new RegExp(file + '[1-8].*?p', 'g')) || []).length: the matches
\* are found left to right and do not overlap; each ends at the first p
\* after the file letter and its digit
RECURSIVE CountFileRegex(_, _, _)
CountFileRegex(s, file, i) ==
  IF i + 2 > Len(s) THEN 0
  ELSE IF s[i] = file /\ s[i + 1] \in {"1", "2", "3", "4", "5", "6", "7", "8"}
            /\ NextPawnChar(s, i + 2) # 0
       THEN 1 + CountFileRegex(s, file, NextPawnChar(s, i + 2) + 1)
       ELSE CountFileRegex(s, file, i + 1)

\* the text of the pattern file + '[1-8].*?p', which includes() looks for
FilePatternText(file) == <<file, "[", "1", "-", "8", "]", ".", "*", "?", "p">>

(***************************************************************************)
(* Board Feature Extractor                                                 *)
(***************************************************************************)
isInEndgame(gameCopy) ==
  LET fen == Fen(gameCopy)
      queens == CountChars(fen, {"q", "Q"})
      pieces == CountChars(fen, {"r", "n", "b", "R", "N", "B"})
  IN queens = 0 \/ pieces <= 6

\* the table entry one piece contributes; isEndgame chooses the king's table
PieceSquare(letter, square, isEndgame) ==
  LET isBlack == ColorOf(letter) = "b"
      t == TypeOf(letter)
      table == CASE t = "p" -> PAWN_POSITION_SCORES
                 [] t = "n" -> KNIGHT_POSITION_SCORES
                 [] t = "b" -> BISHOP_POSITION_SCORES
                 [] t = "r" -> ROOK_POSITION_SCORES
                 [] t = "q" -> QUEEN_POSITION_SCORES
                 [] OTHER -> IF isEndgame THEN KING_ENDGAME_SCORES
                                          ELSE KING_MIDDLEGAME_SCORES
  IN IF isBlack THEN table[(63 - square) + 1] ELSE 0 - table[square + 1]

\* the double loop over the board: the sum of the entries of its pieces
RECURSIVE SumPieceSquares(_, _, _)
SumPieceSquares(board, squares, isEndgame) ==
  IF squares = {} THEN 0
  ELSE LET s == CHOOSE x \in squares : TRUE IN
       PieceSquare(board[s], s, isEndgame)
         + SumPieceSquares(board, squares \ {s}, isEndgame)

evaluatePosition(gameCopy) ==
  SumPieceSquares(gameCopy.pos.board, DOMAIN gameCopy.pos.board,
                  isInEndgame(gameCopy))

\* the declaration of lines 834-873.  The component declares
\* evaluateAdvancedPosition twice in one function body (lines 470 and 834);
\* in JavaScript the later declaration of a function body replaces the
\* earlier one, so this is the function a call reaches
evaluateAdvancedPosition(gameCopy, isEndgame) ==
  SumPieceSquares(gameCopy.pos.board, DOMAIN gameCopy.pos.board, isEndgame)

\* the king found by the row-major scan that stops at the first black king
BlackKingSquares(board) == {s \in DOMAIN board : board[s] = "k"}

countAttacksNearKing(gameCopy) ==
  LET board == gameCopy.pos.board
      found == BlackKingSquares(board)
      king == IF found = {} THEN -1
              ELSE CHOOSE s \in found : \A t \in found : s <= t
      kingRow == IF king = -1 THEN -1 ELSE king \div 8
      kingCol == IF king = -1 THEN -1 ELSE king % 8
      moves == Moves(gameCopy)
      Abs(x) == IF x < 0 THEN 0 - x ELSE x
  IN Cardinality({i \in 1..Len(moves) :
                    /\ Abs(RowOf(moves[i].to) - kingRow) <= 1
                    /\ Abs(ColOf(moves[i].to) - kingCol) <= 1})

evaluateKingSafety(gameCopy, isEndgame) ==
  IF isEndgame THEN 0
  ELSE (IF \/ Includes(Fen(gameCopy), <<"k", ".", "*", "?", "r">>)
           \/ Includes(Fen(gameCopy), <<"r", ".", "*", "?", "k">>)
        THEN 60 ELSE 0)
       - countAttacksNearKing(gameCopy) * 10

\* what one file adds to evaluatePawnStructure
PawnStructureOfFile(position, f) ==
  LET file == Files[f]
      pawnsInFile == CountFileRegex(position, file, 1)
      hasPawn == Includes(position, FilePatternText(file))
      hasNeighborPawn ==
        \/ file # "a" /\ Includes(position, FilePatternText(Files[f - 1]))
        \/ file # "h" /\ Includes(position, FilePatternText(Files[f + 1]))
  IN (IF pawnsInFile > 1 THEN -20 ELSE 0)
     + (IF hasPawn /\ ~hasNeighborPawn THEN -15 ELSE 0)

RECURSIVE SumFiles(_, _)
SumFiles(position, f) ==
  IF f > 8 THEN 0
  ELSE PawnStructureOfFile(position, f) + SumFiles(position, f + 1)

evaluatePawnStructure(gameCopy) ==
  SumFiles(FirstField(Fen(gameCopy)), 1)

CenterSquares == {Sq("d", "4"), Sq("d", "5"), Sq("e", "4"), Sq("e", "5")}

\* what one legal move adds to evaluateOpeningPrinciples
OpeningPrinciplesOfMove(move, weight) ==
  (IF move.piece \in {"n", "b"} THEN 30 * weight ELSE 0)
  + (IF Includes(move.san, <<"O", "-", "O">>)
        \/ Includes(move.san, <<"O", "-", "O", "-", "O">>)
     THEN 40 * weight ELSE 0)
  - (IF move.piece = "q" /\ move.captured = "" THEN 30 * weight ELSE 0)
  + (IF move.piece = "p" /\ move.to \in CenterSquares THEN 25 * weight ELSE 0)

RECURSIVE SumOpening(_, _)
SumOpening(moves, weight) ==
  IF moves = <<>> THEN 0
  ELSE OpeningPrinciplesOfMove(Head(moves), weight)
       + SumOpening(Tail(moves), weight)

evaluateOpeningPrinciples(gameCopy, weight) ==
  SumOpening(Moves(gameCopy), weight)

(***************************************************************************)
(* Move Scorer                                                             *)
(***************************************************************************)
\* evaluateBasicPosition with a mate bonus below the draw penalty: the
\* fault C8 excludes
evaluateBasicPositionLowMate(move, gameCopy) ==
  (IF move.captured # "" THEN PIECE_VALUES[move.captured] * 2 ELSE 0)
  + (IF IsCheck(gameCopy) THEN 50 ELSE 0)
  + (IF IsCheckmate(gameCopy) THEN 1000 ELSE 0)
  - (IF IsDraw(gameCopy) THEN 5000 ELSE 0)

evaluateBasicPosition(move, gameCopy) ==
  (IF move.captured # "" THEN PIECE_VALUES[move.captured] * 2 ELSE 0)
  + (IF IsCheck(gameCopy) THEN 50 ELSE 0)
  + (IF IsCheckmate(gameCopy) THEN 10000 ELSE 0)
  - (IF IsDraw(gameCopy) THEN 5000 ELSE 0)

\* moveCount is moveHistory.length
evaluateIntermediatePosition(gameCopy, moveCount) ==
  LET isEndgame == isInEndgame(gameCopy) IN
  evaluatePosition(gameCopy)
  + evaluateKingSafety(gameCopy, isEndgame)
  + evaluatePawnStructure(gameCopy)
  + Len(Moves(gameCopy)) * 2
  + (IF moveCount < 10 THEN evaluateOpeningPrinciples(gameCopy, 1) ELSE 0)

\* scores are counted in units of 1/RandDen, so that score + Math.random() * w
\* is ScoreUnit * score + w * draw for the draw in 0..RandDen-1
ScoreUnit == RandDen

RandomDraws == 0..(RandDen - 1)

\* the weight of Math.random() in the score
JitterWeight(difficulty) ==
  CASE difficulty = "Easy" -> 50 [] difficulty = "Medium" -> 20 [] OTHER -> 5

\* the score of one candidate on the position gameCopy holds after the move
ScoreOf(move, gameCopy, difficulty, moveCount, draw) ==
  ScoreUnit *
    ( evaluateBasicPosition(move, gameCopy)
      + (CASE difficulty = "Easy" -> 0
           [] difficulty = "Medium" ->
                evaluateIntermediatePosition(gameCopy, moveCount)
           [] OTHER -> evaluateAdvancedPosition(gameCopy, FALSE)) )
  + JitterWeight(difficulty) * draw

\* the callback of moves.map: the move is made on gameCopy, scored, and
\* taken back; gives the scored move and gameCopy as the callback leaves it
ScoreCandidate(move, gameCopy, difficulty, moveCount, draw) ==
  LET moved == MoveObject(gameCopy, move).game
      score == ScoreOf(move, moved, difficulty, moveCount, draw)
  IN [entry |-> [move |-> move, score |-> score], gameCopy |-> Undo(moved)]

\* moves.map(callback): draws[i] is the Math.random() of candidate i
RECURSIVE MapCandidates(_, _, _, _, _, _)
MapCandidates(moves, gameCopy, difficulty, moveCount, draws, i) ==
  IF i > Len(moves) THEN [entries |-> <<>>, gameCopy |-> gameCopy]
  ELSE LET one == ScoreCandidate(moves[i], gameCopy, difficulty, moveCount,
                                 draws[i])
           rest == MapCandidates(moves, one.gameCopy, difficulty, moveCount,
                                 draws, i + 1)
       IN [entries |-> <<one.entry>> \o rest.entries,
           gameCopy |-> rest.gameCopy]

\* an insertion that puts an entry before those of equal score: the sort
\* that is not stable, which C10 excludes
RECURSIVE InsertByScoreUnstable(_, _)
InsertByScoreUnstable(sorted, e) ==
  IF sorted = <<>> THEN <<e>>
  ELSE IF Head(sorted).score > e.score
       THEN <<Head(sorted)>> \o InsertByScoreUnstable(Tail(sorted), e)
       ELSE <<e>> \o sorted

\* Array.prototype.sort((a, b) => b.score - a.score): descending by score,
\* stable, so entries of equal score keep their order
RECURSIVE InsertByScore(_, _)
InsertByScore(sorted, e) ==
  IF sorted = <<>> THEN <<e>>
  ELSE IF Head(sorted).score >= e.score
       THEN <<Head(sorted)>> \o InsertByScore(Tail(sorted), e)
       ELSE <<e>> \o sorted

RECURSIVE SortByScore(_)
SortByScore(entries) ==
  IF entries = <<>> THEN <<>>
  ELSE InsertByScore(SortByScore(SubSeq(entries, 1, Len(entries) - 1)),
                     entries[Len(entries)])

evaluateAllMoves(moves, gameCopy, difficulty, moveCount, draws) ==
  SortByScore(MapCandidates(moves, gameCopy, difficulty, moveCount, draws, 1).entries)

(***************************************************************************)
(* Move Selector                                                           *)
(***************************************************************************)
\* one shortlist length for every tier: the fault C6 excludes
ShortlistSizeFlat(difficulty) == 3

ShortlistSize(difficulty) ==
  CASE difficulty = "Easy" -> 5 [] difficulty = "Medium" -> 3 [] OTHER -> 2

\* evaluatedMoves.slice(0, n)
Slice(s, n) == SubSeq(s, 1, IF n < Len(s) THEN n ELSE Len(s))

\* reading .move of undefined: the call throws
TypeError == [thrown |-> "TypeError"]

\* selectMove with Math.ceil for Math.floor: the fault C2 excludes
selectMoveCeil(evaluatedMoves, difficulty, draw) ==
  LET topMoves == Slice(evaluatedMoves, ShortlistSize(difficulty))
      index == (draw * Len(topMoves) + RandDen - 1) \div RandDen
  IN IF index + 1 \in DOMAIN topMoves THEN topMoves[index + 1].move
     ELSE TypeError

\* draw is the Math.random() of the call; Math.floor(draw/RandDen * length)
selectMove(evaluatedMoves, difficulty, draw) ==
  LET topMoves == Slice(evaluatedMoves, ShortlistSize(difficulty))
      index == (draw * Len(topMoves)) \div RandDen
  IN IF index + 1 \in DOMAIN topMoves THEN topMoves[index + 1].move
     ELSE TypeError

(***************************************************************************)
(* The evaluators of the first declaration of evaluateAdvancedPosition     *)
(***************************************************************************)
\* the greater of two numbers (Math.max)
Max(a, b) == IF a >= b THEN a ELSE b

\* nextMoves.reduce: the callback applied to the moves from i on
RECURSIVE ReduceThreats(_, _, _, _)
ReduceThreats(nextMoves, inCheck, i, max) ==
  IF i > Len(nextMoves) THEN max
  ELSE ReduceThreats(nextMoves, inCheck, i + 1,
         IF nextMoves[i].captured # "" \/ inCheck
         THEN Max(max, PIECE_VALUES[IF nextMoves[i].captured # ""
                                    THEN nextMoves[i].captured ELSE "p"])
         ELSE max)

evaluateThreats(gameCopy) ==
  ReduceThreats(Moves(gameCopy), IsCheck(gameCopy), 1, 0)

ExtendedCenter ==
  {Sq("c", "3"), Sq("c", "4"), Sq("c", "5"), Sq("c", "6"), Sq("d", "3"),
   Sq("d", "6"), Sq("e", "3"), Sq("e", "6"), Sq("f", "3"), Sq("f", "4"),
   Sq("f", "5"), Sq("f", "6")}

evaluateCenterControl(gameCopy) ==
  LET moves == Moves(gameCopy)
      controlledSquares == {moves[i].to : i \in 1..Len(moves)}
  IN 10 * Cardinality(CenterSquares \cap controlledSquares)
     + 5 * Cardinality(ExtendedCenter \cap controlledSquares)

\* what the file col adds to evaluateAdvancedPawnStructure
AdvancedPawnStructureOfFile(position, col) ==
  LET BlackPawnRows(c) == {row \in 0..7 : PieceAt(position, row, c) = "p"}
      blackPawns == Cardinality(BlackPawnRows(col))
      hasPawn == BlackPawnRows(col) # {}
      isPassed ==
        \A row \in BlackPawnRows(col) :
          \A r \in 0..(row - 1) :
            PieceAt(position, r, col) \notin {"p", "P"}
      isIsolated ==
        /\ (col > 0 => BlackPawnRows(col - 1) = {})
        /\ (col < 7 => BlackPawnRows(col + 1) = {})
  IN (IF blackPawns > 1 THEN -30 ELSE 0)
     + (IF hasPawn /\ isIsolated THEN -25 ELSE 0)
     + (IF hasPawn /\ isPassed THEN 50 ELSE 0)

RECURSIVE SumAdvancedFiles(_, _)
SumAdvancedFiles(position, col) ==
  IF col > 7 THEN 0
  ELSE AdvancedPawnStructureOfFile(position, col)
       + SumAdvancedFiles(position, col + 1)

evaluateAdvancedPawnStructure(gameCopy) ==
  SumAdvancedFiles(gameCopy.pos.board, 0)

isDrawnPosition(gameCopy) ==
  CountChars(FirstField(Fen(gameCopy)),
             {"p", "r", "n", "b", "q", "P", "R", "N", "B", "Q"}) <= 3

\* the last square, in row-major order, holding the given king, or -1
KingPos(position, letter) ==
  LET found == {s \in DOMAIN position : position[s] = letter}
  IN IF found = {} THEN -1 ELSE CHOOSE s \in found : \A t \in found : t <= s

\* the distances from 3.5 are kept doubled: 10 * |x - 3.5| = 5 * |2x - 7|
evaluateEndgamePosition(gameCopy) ==
  LET position == gameCopy.pos.board
      blackKingPos == KingPos(position, "k")
      whiteKingPos == KingPos(position, "K")
      Abs(x) == IF x < 0 THEN 0 - x ELSE x
      blackKingDistance2 ==
        Max(Abs(2 * (blackKingPos \div 8) - 7), Abs(2 * (blackKingPos % 8) - 7))
      kingDistance ==
        Max(Abs((blackKingPos \div 8) - (whiteKingPos \div 8)),
            Abs((blackKingPos % 8) - (whiteKingPos % 8)))
  IN IF blackKingPos # -1 /\ whiteKingPos # -1
     THEN blackKingDistance2 * 5
          - (IF isDrawnPosition(gameCopy) THEN kingDistance * 5 ELSE 0)
     ELSE 0

\* the declaration of evaluateAdvancedPosition at line 470, which the
\* declaration at line 834 of the same name in the same function body
\* replaces: no call reaches it
evaluateAdvancedPositionFirst(gameCopy, moveCount) ==
  LET isEndgame == isInEndgame(gameCopy) IN
  evaluatePosition(gameCopy) * 2
  + evaluateKingSafety(gameCopy, isEndgame) * 3
  + evaluateAdvancedPawnStructure(gameCopy) * 2
  + Len(Moves(gameCopy)) * 5
  + evaluateCenterControl(gameCopy) * 15
  + (IF moveCount < 15 THEN evaluateOpeningPrinciples(gameCopy, 2) ELSE 0)
  + (IF isEndgame THEN evaluateEndgamePosition(gameCopy) * 2 ELSE 0)
  - evaluateThreats(gameCopy)

(***************************************************************************)
(* The positions the model plays and scores.  They are chess positions     *)
(* written out with the answers chess.js gives for them: the board, the    *)
(* counters of the FEN, whether the side to move is in check and the       *)
(* legal moves.                                                            *)
(***************************************************************************)
\* board squares from a sequence of <<letter, file, rank>>
Setup(pieces) ==
  [s \in {Index(Sq(pieces[i][2], pieces[i][3])) : i \in 1..Len(pieces)} |->
     LET i == CHOOSE j \in 1..Len(pieces) :
                Index(Sq(pieces[j][2], pieces[j][3])) = s
     IN pieces[i][1]]

\* the board after the piece on from went to "to" and stands there as letter
\* (its own letter, or the piece a pawn promoted to), capturing what was there
MovePiece(board, from, to, letter) ==
  [s \in (DOMAIN board \ {Index(from)}) \cup {Index(to)} |->
     IF s = Index(to) THEN letter ELSE board[s]]

\* a position without castling rights and without en-passant square
Position(board, turn, half, full, inCheck, legal) ==
  [board |-> board, turn |-> turn, castling |-> <<"-">>, ep |-> <<"-">>,
   half |-> half, full |-> full, inCheck |-> inCheck, legal |-> legal]

\* a verbose move of chess.js; captured and promotion are "" when absent
Mv(from, to, piece, captured, promotion, san, after) ==
  [from |-> from, to |-> to, piece |-> piece, captured |-> captured,
   promotion |-> promotion, san |-> san, after |-> after]

\* a legal move whose resulting position the model does not follow
Leaf(from, to, piece, captured, promotion, san) ==
  Mv(from, to, piece, captured, promotion, san, Horizon)

\* ---- the game the component plays: 7k/7P/5PP1/8/8/8/1p4PP/7K w - - 0 1 ----
StartBoard ==
  Setup(<< <<"k", "h", "8">>, <<"P", "h", "7">>, <<"P", "f", "6">>,
           <<"P", "g", "6">>, <<"p", "b", "2">>, <<"P", "g", "2">>,
           <<"P", "h", "2">>, <<"K", "h", "1">> >>)

\* White's king and kingside pawn moves with the king on h1, pawns g2, h2
KingsideMoves ==
  << Leaf(Sq("h", "1"), Sq("g", "1"), "k", "", "", <<"K", "g", "1">>),
     Leaf(Sq("g", "2"), Sq("g", "3"), "p", "", "", <<"g", "3">>),
     Leaf(Sq("g", "2"), Sq("g", "4"), "p", "", "", <<"g", "4">>),
     Leaf(Sq("h", "2"), Sq("h", "3"), "p", "", "", <<"h", "3">>),
     Leaf(Sq("h", "2"), Sq("h", "4"), "p", "", "", <<"h", "4">>) >>

\* the same after h3 was played
KingsideMovesAfterH3 ==
  << Leaf(Sq("h", "1"), Sq("g", "1"), "k", "", "", <<"K", "g", "1">>),
     Leaf(Sq("h", "1"), Sq("h", "2"), "k", "", "", <<"K", "h", "2">>),
     Leaf(Sq("g", "2"), Sq("g", "3"), "p", "", "", <<"g", "3">>),
     Leaf(Sq("g", "2"), Sq("g", "4"), "p", "", "", <<"g", "4">>),
     Leaf(Sq("h", "3"), Sq("h", "4"), "p", "", "", <<"h", "4">>) >>

\* the promotions of a white pawn from "from" to "to"; checks names the
\* pieces that give check from there
Promotions(from, to, checks) ==
  [i \in 1..4 |->
     LET p == <<"q", "r", "b", "n">>[i]
         P == <<"Q", "R", "B", "N">>[i]
     IN Leaf(from, to, "p", "", p,
             to \o <<"=", P>> \o (IF p \in checks THEN <<"+">> ELSE <<>>))]

\* 1. f7: Black to move
BoardF == MovePiece(StartBoard, Sq("f", "6"), Sq("f", "7"), "P")

\* 1. f7 b1=Q# and 1. f7 b1=R#: White is mated on the back rank
AfterF_Q ==
  Position(MovePiece(BoardF, Sq("b", "2"), Sq("b", "1"), "q"), "w", 0, 2,
           TRUE, <<>>)

AfterF_R ==
  Position(MovePiece(BoardF, Sq("b", "2"), Sq("b", "1"), "r"), "w", 0, 2,
           TRUE, <<>>)

RepliesF_Minor ==
  KingsideMoves
    \o Promotions(Sq("f", "7"), Sq("f", "8"), {"q", "r"})
    \o << Leaf(Sq("g", "6"), Sq("g", "7"), "p", "", "", <<"g", "7", "+">>) >>

AfterF_B ==
  Position(MovePiece(BoardF, Sq("b", "2"), Sq("b", "1"), "b"), "w", 0, 2,
           FALSE, RepliesF_Minor)

AfterF_N ==
  Position(MovePiece(BoardF, Sq("b", "2"), Sq("b", "1"), "n"), "w", 0, 2,
           FALSE, RepliesF_Minor)

AfterF_K ==
  Position(MovePiece(BoardF, Sq("h", "8"), Sq("g", "7"), "k"), "w", 1, 2,
           FALSE,
           KingsideMoves
             \o Promotions(Sq("f", "7"), Sq("f", "8"), {"q", "b"})
             \o Promotions(Sq("h", "7"), Sq("h", "8"), {"q", "b"}))

PositionF ==
  Position(BoardF, "b", 0, 1, FALSE,
    << Mv(Sq("b", "2"), Sq("b", "1"), "p", "", "q",
          <<"b", "1", "=", "Q", "#">>, AfterF_Q),
       Mv(Sq("b", "2"), Sq("b", "1"), "p", "", "r",
          <<"b", "1", "=", "R", "#">>, AfterF_R),
       Mv(Sq("b", "2"), Sq("b", "1"), "p", "", "b",
          <<"b", "1", "=", "B">>, AfterF_B),
       Mv(Sq("b", "2"), Sq("b", "1"), "p", "", "n",
          <<"b", "1", "=", "N">>, AfterF_N),
       Mv(Sq("h", "8"), Sq("g", "7"), "k", "", "",
          <<"K", "g", "7">>, AfterF_K) >>)

\* 1. h3: Black to move
BoardH == MovePiece(StartBoard, Sq("h", "2"), Sq("h", "3"), "P")

RepliesH_Check ==
  << Leaf(Sq("h", "1"), Sq("h", "2"), "k", "", "", <<"K", "h", "2">>) >>

RepliesH_Minor ==
  KingsideMovesAfterH3
    \o << Leaf(Sq("f", "6"), Sq("f", "7"), "p", "", "", <<"f", "7">>),
          Leaf(Sq("g", "6"), Sq("g", "7"), "p", "", "", <<"g", "7", "+">>) >>

AfterH_Q ==
  Position(MovePiece(BoardH, Sq("b", "2"), Sq("b", "1"), "q"), "w", 0, 2,
           TRUE, RepliesH_Check)

AfterH_R ==
  Position(MovePiece(BoardH, Sq("b", "2"), Sq("b", "1"), "r"), "w", 0, 2,
           TRUE, RepliesH_Check)

AfterH_B ==
  Position(MovePiece(BoardH, Sq("b", "2"), Sq("b", "1"), "b"), "w", 0, 2,
           FALSE, RepliesH_Minor)

AfterH_N ==
  Position(MovePiece(BoardH, Sq("b", "2"), Sq("b", "1"), "n"), "w", 0, 2,
           FALSE, RepliesH_Minor)

PositionH ==
  Position(BoardH, "b", 0, 1, FALSE,
    << Mv(Sq("b", "2"), Sq("b", "1"), "p", "", "q",
          <<"b", "1", "=", "Q", "+">>, AfterH_Q),
       Mv(Sq("b", "2"), Sq("b", "1"), "p", "", "r",
          <<"b", "1", "=", "R", "+">>, AfterH_R),
       Mv(Sq("b", "2"), Sq("b", "1"), "p", "", "b",
          <<"b", "1", "=", "B">>, AfterH_B),
       Mv(Sq("b", "2"), Sq("b", "1"), "p", "", "n",
          <<"b", "1", "=", "N">>, AfterH_N) >>)

\* 1. g7+: Black is in check and has the one move Kxh7
BoardG == MovePiece(StartBoard, Sq("g", "6"), Sq("g", "7"), "P")

AfterG_K ==
  Position(MovePiece(BoardG, Sq("h", "8"), Sq("h", "7"), "k"), "w", 0, 2,
           FALSE,
           KingsideMoves
             \o << Leaf(Sq("f", "6"), Sq("f", "7"), "p", "", "", <<"f", "7">>) >>
             \o Promotions(Sq("g", "7"), Sq("g", "8"), {"q", "b"}))

PositionG ==
  Position(BoardG, "b", 0, 1, TRUE,
    << Mv(Sq("h", "8"), Sq("h", "7"), "k", "p", "",
          <<"K", "x", "h", "7">>, AfterG_K) >>)

\* new Chess() in the model: the game starts from this position
DEFAULT_POSITION ==
  Position(StartBoard, "w", 0, 1, FALSE,
    << Leaf(Sq("h", "1"), Sq("g", "1"), "k", "", "", <<"K", "g", "1">>),
       Leaf(Sq("g", "2"), Sq("g", "3"), "p", "", "", <<"g", "3">>),
       Leaf(Sq("g", "2"), Sq("g", "4"), "p", "", "", <<"g", "4">>),
       Mv(Sq("h", "2"), Sq("h", "3"), "p", "", "", <<"h", "3">>, PositionH),
       Leaf(Sq("h", "2"), Sq("h", "4"), "p", "", "", <<"h", "4">>),
       Mv(Sq("f", "6"), Sq("f", "7"), "p", "", "", <<"f", "7">>, PositionF),
       Mv(Sq("g", "6"), Sq("g", "7"), "p", "", "", <<"g", "7", "+">>,
          PositionG) >>)

\* ---- a middlegame-like position with more kinds of candidates ----
\* 7k/8/8/4p3/3N4/8/Pq4PP/7K b - - 99 60: Black to move, 99 half-moves
\* since the last capture or pawn move
RichBoard ==
  Setup(<< <<"k", "h", "8">>, <<"p", "e", "5">>, <<"N", "d", "4">>,
           <<"P", "a", "2">>, <<"q", "b", "2">>, <<"P", "g", "2">>,
           <<"P", "h", "2">>, <<"K", "h", "1">> >>)

QueensideMoves ==
  << Leaf(Sq("a", "2"), Sq("a", "3"), "p", "", "", <<"a", "3">>),
     Leaf(Sq("a", "2"), Sq("a", "4"), "p", "", "", <<"a", "4">>) >>

\* the moves of the knight on d4
KnightMoves ==
  [i \in 1..8 |->
     LET to == << Sq("b", "3"), Sq("b", "5"), Sq("c", "2"), Sq("c", "6"),
                  Sq("e", "2"), Sq("e", "6"), Sq("f", "3"), Sq("f", "5") >>[i]
     IN Leaf(Sq("d", "4"), to, "n", "", "", <<"N">> \o to)]

RichCandidates ==
  << \* Kg8: the hundredth half-move, a draw by the fifty-move rule
     Mv(Sq("h", "8"), Sq("g", "8"), "k", "", "", <<"K", "g", "8">>,
        Position(MovePiece(RichBoard, Sq("h", "8"), Sq("g", "8"), "k"),
                 "w", 100, 61, FALSE,
                 KingsideMoves \o QueensideMoves \o KnightMoves)),
     \* e4
     Mv(Sq("e", "5"), Sq("e", "4"), "p", "", "", <<"e", "4">>,
        Position(MovePiece(RichBoard, Sq("e", "5"), Sq("e", "4"), "p"),
                 "w", 0, 61, FALSE,
                 KingsideMoves \o QueensideMoves \o KnightMoves)),
     \* exd4: the pawn takes the knight
     Mv(Sq("e", "5"), Sq("d", "4"), "p", "n", "", <<"e", "x", "d", "4">>,
        Position(MovePiece(RichBoard, Sq("e", "5"), Sq("d", "4"), "p"),
                 "w", 0, 61, FALSE, KingsideMoves \o QueensideMoves)),
     \* Qxd4: the queen takes the knight, and guards g1
     Mv(Sq("b", "2"), Sq("d", "4"), "q", "n", "", <<"Q", "x", "d", "4">>,
        Position(MovePiece(RichBoard, Sq("b", "2"), Sq("d", "4"), "q"),
                 "w", 0, 61, FALSE,
                 SubSeq(KingsideMoves, 2, Len(KingsideMoves)) \o QueensideMoves)),
     \* Qb1#: mate on the back rank, and the hundredth half-move
     Mv(Sq("b", "2"), Sq("b", "1"), "q", "", "", <<"Q", "b", "1", "#">>,
        Position(MovePiece(RichBoard, Sq("b", "2"), Sq("b", "1"), "q"),
                 "w", 100, 61, TRUE, <<>>)),
     \* Qxa2: the queen takes a pawn
     Mv(Sq("b", "2"), Sq("a", "2"), "q", "p", "", <<"Q", "x", "a", "2">>,
        Position(MovePiece(RichBoard, Sq("b", "2"), Sq("a", "2"), "q"),
                 "w", 0, 61, FALSE, KingsideMoves \o KnightMoves)),
     \* Qxg2+: the queen takes a pawn with check and can be taken
     Mv(Sq("b", "2"), Sq("g", "2"), "q", "p", "", <<"Q", "x", "g", "2", "+">>,
        Position(MovePiece(RichBoard, Sq("b", "2"), Sq("g", "2"), "q"),
                 "w", 0, 61, TRUE,
                 << Leaf(Sq("h", "1"), Sq("g", "2"), "k", "q", "",
                         <<"K", "x", "g", "2">>) >>)),
     \* Qc1#
     Mv(Sq("b", "2"), Sq("c", "1"), "q", "", "", <<"Q", "c", "1", "#">>,
        Position(MovePiece(RichBoard, Sq("b", "2"), Sq("c", "1"), "q"),
                 "w", 100, 61, TRUE, <<>>)),
     \* Qb8
     Mv(Sq("b", "2"), Sq("b", "8"), "q", "", "", <<"Q", "b", "8">>,
        Position(MovePiece(RichBoard, Sq("b", "2"), Sq("b", "8"), "q"),
                 "w", 100, 61, FALSE,
                 KingsideMoves \o QueensideMoves \o KnightMoves)) >>

RichPosition ==
  Position(RichBoard, "b", 99, 60, FALSE, RichCandidates)

\* the positions the scoring pass is run on in SpecScore
ScoreParents == {PositionF, PositionH, PositionG, RichPosition, AfterF_Q}

(***************************************************************************)
(* State                                                                   *)
(***************************************************************************)
VARIABLES
  game,               \* useState(new Chess()): the Chess object of the game
  moveHistory,        \* the SANs of the moves made
  isPlayingComputer,
  difficulty,
  isTimerRunning,
  selectedTimeControl,
  timeLeft,           \* seconds left to white and to black
  moveFrom,           \* the square selected by a click, or ""
  possibleMoves,      \* the destinations shown for it
  timers,             \* the setTimeout callbacks armed and neither fired nor cleared
  moveTimer,          \* the handle the latest run of the computer-move effect holds
  last,               \* the handler that ran last, and what was pending before it
  run,                \* one scoring pass, step by step (SpecScore)
  probe               \* one evaluator applied to one position (SpecScore)

vars ==
  <<game, moveHistory, isPlayingComputer, difficulty, isTimerRunning,
    selectedTimeControl, timeLeft, moveFrom, possibleMoves, timers, moveTimer,
    last, run, probe>>

componentVars ==
  <<game, moveHistory, isPlayingComputer, difficulty, isTimerRunning,
    selectedTimeControl, timeLeft, moveFrom, possibleMoves, timers, moveTimer,
    last>>

\* the value of an absent result
None == [none |-> TRUE]

NoRun ==
  [pc |-> "idle", game |-> None, moves |-> <<>>, difficulty |-> "Easy",
   moveCount |-> 0, gameCopy |-> None, entries |-> <<>>, draws |-> <<>>,
   evaluated |-> <<>>, selected |-> None, pass |-> 1, first |-> <<>>]

\* the state of the component after its first render
InitComponent ==
  /\ game = Chess(DEFAULT_POSITION)
  /\ moveHistory = <<>>
  /\ isPlayingComputer = FALSE
  /\ difficulty = "Easy"
  /\ isTimerRunning = FALSE
  /\ selectedTimeControl = TIME_CONTROLS[4]
  /\ timeLeft = [white |-> TIME_CONTROLS[4].initial,
                 black |-> TIME_CONTROLS[4].initial]
  /\ moveFrom = ""
  /\ possibleMoves = <<>>
  /\ timers = {}
  /\ moveTimer = None
  /\ last = [op |-> "mount", pending |-> FALSE, outcome |-> "none",
             selected |-> None, prev |-> None]

(***************************************************************************)
(* SpecScore: the scoring pass and the selection, one step at a time       *)
(***************************************************************************)
\* the draws the scoring pass is followed with: the least and the greatest
JitterDraws == {0, RandDen - 1}

\* moveHistory.length at the time of the pass
MoveCounts == {1, 11}

\* makeComputerMoveWithTimer, lines 235-238: the legal moves of the game are
\* scored on a copy of it
StartRun(g, d, n) ==
  [pc |-> "map", game |-> g, moves |-> Moves(g), difficulty |-> d,
   moveCount |-> n, gameCopy |-> CopyOf(g), entries |-> <<>>, draws |-> <<>>,
   evaluated |-> <<>>, selected |-> None, pass |-> 1, first |-> <<>>]

InitScore ==
  /\ InitComponent
  /\ probe = None
  /\ \/ run = NoRun
     \/ \E p \in ScoreParents, d \in Difficulties, n \in MoveCounts :
          run = StartRun(Chess(p), d, n)

\* one call of the callback of moves.map
ScoreNext ==
  /\ run.pc = "map"
  /\ Len(run.entries) < Len(run.moves)
  /\ \E draw \in (IF run.pass = 1 THEN JitterDraws ELSE {0}) :
       LET one == ScoreCandidate(run.moves[Len(run.entries) + 1], run.gameCopy,
                                 run.difficulty, run.moveCount, draw)
       IN run' = [run EXCEPT !.entries = Append(@, one.entry),
                             !.draws = Append(@, draw),
                             !.gameCopy = one.gameCopy]
  /\ UNCHANGED <<componentVars, probe>>

\* the sort that ends evaluateAllMoves
SortEntries ==
  /\ run.pc = "map"
  /\ Len(run.entries) = Len(run.moves)
  /\ run' = [run EXCEPT !.evaluated = SortByScore(run.entries),
                        !.pc = "select"]
  /\ UNCHANGED <<componentVars, probe>>

SelectMove ==
  /\ run.pc = "select"
  /\ \E draw \in RandomDraws :
       run' = [run EXCEPT !.selected = selectMove(run.evaluated, run.difficulty, draw),
                          !.pc = "done"]
  /\ UNCHANGED <<componentVars, probe>>

\* the pass run once more on the same Chess object, every draw of both
\* passes being zero
Rerun ==
  /\ run.pc = "done"
  /\ run.pass = 1
  /\ \A i \in 1..Len(run.draws) : run.draws[i] = 0
  /\ run' = [run EXCEPT !.pc = "map", !.pass = 2, !.first = run.evaluated,
                        !.entries = <<>>, !.draws = <<>>, !.evaluated = <<>>,
                        !.selected = None]
  /\ UNCHANGED <<componentVars, probe>>

\* positions for isInEndgame: kings on e1 and e8, queens on d1 and d8 or not,
\* the first n of the rooks, knights and bishops of the initial array, and
\* the castling rights the rooks on the board allow
MinorAndMajorPieces ==
  << <<"R", "a", "1">>, <<"r", "a", "8">>, <<"R", "h", "1">>, <<"r", "h", "8">>,
     <<"N", "b", "1">>, <<"n", "b", "8">>, <<"B", "c", "1">>, <<"b", "c", "8">>,
     <<"B", "f", "1">>, <<"b", "f", "8">>, <<"N", "g", "1">>, <<"n", "g", "8">> >>

PhaseBoard(whiteQueen, blackQueen, n) ==
  Setup(<< <<"K", "e", "1">>, <<"k", "e", "8">>, <<"P", "e", "2">>,
           <<"p", "e", "7">> >>
        \o (IF whiteQueen THEN << <<"Q", "d", "1">> >> ELSE <<>>)
        \o (IF blackQueen THEN << <<"q", "d", "8">> >> ELSE <<>>)
        \o SubSeq(MinorAndMajorPieces, 1, n))

\* the castling field of the FEN for a set of rights
CastlingField(rights) ==
  IF rights = {} THEN <<"-">>
  ELSE (IF "K" \in rights THEN <<"K">> ELSE <<>>)
       \o (IF "Q" \in rights THEN <<"Q">> ELSE <<>>)
       \o (IF "k" \in rights THEN <<"k">> ELSE <<>>)
       \o (IF "q" \in rights THEN <<"q">> ELSE <<>>)

\* the rights for which king and rook still stand on their squares
RightsOn(board) ==
  {r \in {"K", "Q", "k", "q"} :
     LET rook == CASE r = "K" -> Sq("h", "1") [] r = "Q" -> Sq("a", "1")
                   [] r = "k" -> Sq("h", "8") [] OTHER -> Sq("a", "8")
     IN /\ Index(rook) \in DOMAIN board
        /\ board[Index(rook)] = (IF r \in {"K", "Q"} THEN "R" ELSE "r")}

PhasePositions ==
  UNION {
    {[board |-> PhaseBoard(wq, bq, n), turn |-> t,
      castling |-> CastlingField(rights), ep |-> <<"-">>, half |-> 0,
      full |-> 20, inCheck |-> FALSE, legal |-> <<>>] :
       t \in {"w", "b"}, rights \in SUBSET RightsOn(PhaseBoard(wq, bq, n))} :
    wq \in BOOLEAN, bq \in BOOLEAN, n \in 0..Len(MinorAndMajorPieces)}

\* isInEndgame applied to one of these positions; only its FEN is read
ProbeEndgame ==
  /\ run.pc = "idle"
  /\ probe = None
  /\ \E p \in PhasePositions :
       probe' = [op |-> "isInEndgame", pos |-> p,
                 result |-> isInEndgame(Chess(p))]
  /\ UNCHANGED <<componentVars, run>>

\* the positions the reply evaluators are applied to: the positions scored
\* and the positions their candidates lead to
ReplyPositions ==
  ScoreParents
  \cup UNION { {p.legal[i].after : i \in {j \in 1..Len(p.legal) : p.legal[j].after # Horizon}} :
               p \in ScoreParents }

ProbeThreats ==
  /\ run.pc = "idle"
  /\ probe = None
  /\ \E p \in ReplyPositions :
       probe' = [op |-> "evaluateThreats", pos |-> p,
                 result |-> evaluateThreats(Chess(p))]
  /\ UNCHANGED <<componentVars, run>>

\* evaluateAdvancedPawnStructure reads the board only
ProbePawnStructure ==
  /\ run.pc = "idle"
  /\ probe = None
  /\ \E p \in PhasePositions \cup ReplyPositions :
       probe' = [op |-> "evaluateAdvancedPawnStructure", pos |-> p,
                 result |-> evaluateAdvancedPawnStructure(Chess(p))]
  /\ UNCHANGED <<componentVars, run>>

\* 1nbqrrk1/ppp2ppp/8/8/8/5n2/PPPP2PP/RNBQKB1R w - - 1 15: Black has
\* castled; White is in check from the rook on e8 and the knight on f3 and
\* has the one move Kf2
CastledBoard ==
  Setup(<< <<"k", "g", "8">>, <<"r", "f", "8">>, <<"r", "e", "8">>,
           <<"q", "d", "8">>, <<"b", "c", "8">>, <<"n", "b", "8">>,
           <<"n", "f", "3">>, <<"p", "a", "7">>, <<"p", "b", "7">>,
           <<"p", "c", "7">>, <<"p", "f", "7">>, <<"p", "g", "7">>,
           <<"p", "h", "7">>,
           <<"K", "e", "1">>, <<"Q", "d", "1">>, <<"B", "f", "1">>,
           <<"B", "c", "1">>, <<"N", "b", "1">>, <<"R", "a", "1">>,
           <<"R", "h", "1">>, <<"P", "a", "2">>, <<"P", "b", "2">>,
           <<"P", "c", "2">>, <<"P", "d", "2">>, <<"P", "g", "2">>,
           <<"P", "h", "2">> >>)

CastledPosition ==
  Position(CastledBoard, "w", 1, 15, TRUE,
           << Leaf(Sq("e", "1"), Sq("f", "2"), "k", "", "", <<"K", "f", "2">>) >>)

\* evaluateKingSafety as evaluateIntermediatePosition calls it, with the
\* phase isInEndgame gives for the position
ProbeKingSafety ==
  /\ run.pc = "idle"
  /\ probe = None
  /\ \E p \in PhasePositions \cup ReplyPositions \cup {CastledPosition} :
       probe' = [op |-> "evaluateKingSafety", pos |-> p,
                 result |-> evaluateKingSafety(Chess(p), isInEndgame(Chess(p)))]
  /\ UNCHANGED <<componentVars, run>>

NextScore ==
  \/ ScoreNext
  \/ SortEntries
  \/ SelectMove
  \/ Rerun
  \/ ProbeEndgame
  \/ ProbeThreats
  \/ ProbePawnStructure
  \/ ProbeKingSafety

SpecScore == InitScore /\ [][NextScore]_vars

(***************************************************************************)
(* Spec: the component.  A step is one event (a click, a drop, the expiry  *)
(* of the thinking timer) with the render and the effects that follow it:  *)
(* React runs them before the next event is handled.                       *)
(***************************************************************************)
\* the moves the thinking turn can come to select: every outcome of the
\* Math.random() calls of the scoring pass and of selectMove.  The random
\* term is added to a score that does not depend on it (lines 281, 285,
\* 289), so the candidates are scored once, without it, and the term of
\* each outcome is added to those scores before the sort.
Selections(g, d, history) ==
  LET moves == Moves(g)
      base == MapCandidates(moves, CopyOf(g), d, Len(history),
                            [i \in 1..Len(moves) |-> 0], 1).entries
  IN UNION { UNION { LET jittered ==
                           [i \in 1..Len(moves) |->
                              [move |-> scored[i].move,
                               score |-> scored[i].score
                                           + JitterWeight(d) * draws[i]]]
                     IN UNION { {selectMove(evaluatedMoves, d, draw) :
                                   draw \in RandomDraws} :
                                evaluatedMoves \in {SortByScore(jittered)} } :
                     draws \in [1..Len(moves) -> JitterDraws] } :
             scored \in {base} }

\* what a render holds of the state of the component
View ==
  [game |-> game, moveHistory |-> moveHistory,
   isPlayingComputer |-> isPlayingComputer, difficulty |-> difficulty,
   isTimerRunning |-> isTimerRunning,
   selectedTimeControl |-> selectedTimeControl, timeLeft |-> timeLeft,
   moveFrom |-> moveFrom, possibleMoves |-> possibleMoves]

\* the callback given to setTimeout with what its closure holds: the move
\* selected and the render the effect ran in
Timeout(selectedMove, view) ==
  [selectedMove |-> selectedMove, view |-> view,
   delay |-> THINKING_TIME[view.difficulty]]

\* a cleanup that clears nothing, as one testing the module-level
\* moveTimeoutId, which is never assigned, would: the fault C1 and C4 exclude
EffectCleanupNothing(pending, handle) == pending

\* the cleanup of the effect: if (moveTimer) clearTimeout(moveTimer)
EffectCleanup(pending, handle) == pending \ {handle}

\* an effect that starts no thinking turn: the fault C21 excludes
ComputerToMoveNever(g, playing) == FALSE

\* the condition under which the effect starts a thinking turn
ComputerToMove(g, playing) ==
  playing /\ Turn(g) = "b" /\ ~IsGameOver(g)

\* what the handler that ran last did, for the properties: outcome is
\* "moved", "rejected" (makeAMove returned false), "ignored" (the handler
\* returned at its guard), "ticked" (the clock interval ran) or "none";
\* selected is the move the expired timer held; prev is the state the
\* handler started from
Note(outcome, selected) ==
  [outcome |-> outcome, selected |-> selected,
   prev |-> IF outcome = "none" THEN None
            ELSE [game |-> game, moveHistory |-> moveHistory,
                  timeLeft |-> timeLeft, isTimerRunning |-> isTimerRunning,
                  increment |-> selectedTimeControl.increment]]

\* the time-out effect, run when timeLeft was set: a clock at zero stops the
\* clock
TimeOut(before, after) ==
  before # after /\ (after.white = 0 \/ after.black = 0)

\* the render after an event that set the values of view: the time-out
\* effect, then the computer-move effect when one of game,
\* isPlayingComputer, difficulty, moveHistory changed: its cleanup, then
\* its body, whose setIsTimerRunning(true), made when the render has the
\* clock stopped, is the later of the two
Render(view, pending, changed, op, note) ==
  LET stopped == IF TimeOut(timeLeft, view.timeLeft) THEN FALSE
                 ELSE view.isTimerRunning IN
  /\ game' = view.game
  /\ moveHistory' = view.moveHistory
  /\ isPlayingComputer' = view.isPlayingComputer
  /\ difficulty' = view.difficulty
  /\ selectedTimeControl' = view.selectedTimeControl
  /\ timeLeft' = view.timeLeft
  /\ moveFrom' = view.moveFrom
  /\ possibleMoves' = view.possibleMoves
  /\ last' = [op |-> op, pending |-> timers # {}, outcome |-> note.outcome,
              selected |-> note.selected, prev |-> note.prev]
  /\ UNCHANGED <<run, probe>>
  /\ IF ~changed
     THEN /\ timers' = pending
          /\ moveTimer' = moveTimer
          /\ isTimerRunning' = stopped
     ELSE LET kept == EffectCleanup(pending, moveTimer) IN
          IF ComputerToMove(view.game, view.isPlayingComputer)
          THEN /\ isTimerRunning' = (~view.isTimerRunning \/ stopped)
               /\ IF Len(Moves(view.game)) > 0
                  THEN \E selectedMove \in Selections(view.game, view.difficulty,
                                                      view.moveHistory) :
                         /\ selectedMove # TypeError
                         /\ moveTimer' = Timeout(selectedMove, view)
                         /\ timers' = kept \cup {moveTimer'}
                  ELSE /\ moveTimer' = None
                       /\ timers' = kept
          ELSE /\ isTimerRunning' = stopped
               /\ moveTimer' = None
               /\ timers' = kept

\* handleMoveComplete called in the render closure: isTimerRunning and
\* timeLeft after it; setTimeLeft(prev => ...) reads the current timeLeft
handleMoveComplete(closure) ==
  IF ~closure.isTimerRunning
  THEN [isTimerRunning |-> TRUE, timeLeft |-> timeLeft]
  ELSE LET playerJustMoved ==
             IF Turn(closure.game) = "w" THEN "black" ELSE "white"
           increment == closure.selectedTimeControl.increment
       IN [isTimerRunning |-> isTimerRunning,
           timeLeft |-> IF increment > 0
                        THEN [timeLeft EXCEPT ![playerJustMoved] = @ + increment]
                        ELSE timeLeft]

\* makeAMove with a second attempt, the first legal move, when the move is
\* rejected: the fault C14 excludes
makeAMoveRetry(move, closure, base, pending, op, selected) ==
  LET first == Move(CopyOf(closure.game), move.from, move.to, move.promotion)
      made == IF first.ok \/ Moves(closure.game) = <<>> THEN first
              ELSE MoveObject(CopyOf(closure.game), Moves(closure.game)[1])
      done == handleMoveComplete(closure)
  IN /\ made.ok => made.game.pos # Horizon
     /\ IF made.ok
        THEN Render([base EXCEPT !.game = made.game,
                                 !.moveHistory = Append(closure.moveHistory,
                                                        made.result.san),
                                 !.moveFrom = "", !.possibleMoves = <<>>,
                                 !.isTimerRunning = done.isTimerRunning,
                                 !.timeLeft = done.timeLeft],
                    pending, TRUE, op,
                    Note(IF first.ok THEN "moved" ELSE "rejected", selected))
        ELSE Render(base, pending, FALSE, op, Note("rejected", selected))

\* makeAMove(move) called in the render closure; base is the state as the
\* caller has set it before the call.  A move into a position the model
\* does not hold is not followed.
makeAMove(move, closure, base, pending, op, selected) ==
  LET made == Move(CopyOf(closure.game), move.from, move.to, move.promotion)
      done == handleMoveComplete(closure)
  IN /\ made.ok => made.game.pos # Horizon
     /\ IF made.ok
        THEN Render([base EXCEPT !.game = made.game,
                                 !.moveHistory = Append(closure.moveHistory,
                                                        made.result.san),
                                 !.moveFrom = "", !.possibleMoves = <<>>,
                                 !.isTimerRunning = done.isTimerRunning,
                                 !.timeLeft = done.timeLeft],
                    pending, TRUE, op, Note("moved", selected))
        ELSE Render(base, pending, FALSE, op, Note("rejected", selected))

\* a guard that never holds: the fault C17 excludes
ComputersTurnNever(g, playing) == FALSE

\* the guard of onSquareClick and onDrop
ComputersTurn(g, playing) == playing /\ Turn(g) = "b"

\* the squares of a drop the model follows: the legal moves whose position
\* it holds, and one drop that is no legal move
DropInputs(g) ==
  {<<Moves(g)[i].from, Moves(g)[i].to>> :
     i \in {j \in 1..Len(Moves(g)) : Moves(g)[j].after # Horizon}}
  \cup {<<Sq("h", "1"), Sq("a", "8")>>}

onDrop ==
  \E drop \in DropInputs(game) :
    IF ComputersTurn(game, isPlayingComputer)
    THEN Render(View, timers, FALSE, "onDrop", Note("ignored", None))
    ELSE makeAMove([from |-> drop[1], to |-> drop[2], promotion |-> "q"],
                   View, [View EXCEPT !.moveFrom = "", !.possibleMoves = <<>>],
                   timers, "onDrop", None)

\* the squares clicked: those of the drops
ClickInputs(g) ==
  {drop[1] : drop \in DropInputs(g)} \cup {drop[2] : drop \in DropInputs(g)}

\* moves.map(move => move.to)
Destinations(moves) == [i \in 1..Len(moves) |-> moves[i].to]

onSquareClick ==
  \E square \in ClickInputs(game) :
    LET moves == MovesFrom(game, square)
        select == [View EXCEPT !.moveFrom = square,
                               !.possibleMoves = Destinations(moves)]
        clear == [View EXCEPT !.moveFrom = "", !.possibleMoves = <<>>]
    IN IF ComputersTurn(game, isPlayingComputer)
       THEN Render(View, timers, FALSE, "onSquareClick", Note("ignored", None))
       ELSE IF moveFrom = ""
       THEN Render(IF Len(moves) > 0 THEN select ELSE View, timers, FALSE,
                   "onSquareClick", Note("none", None))
       ELSE IF square = moveFrom
       THEN Render(clear, timers, FALSE, "onSquareClick", Note("none", None))
       ELSE IF \E i \in 1..Len(possibleMoves) : possibleMoves[i] = square
       THEN makeAMove([from |-> moveFrom, to |-> square, promotion |-> "q"],
                      View, View, timers, "onSquareClick", None)
       ELSE Render(IF Len(moves) > 0 THEN select ELSE clear, timers, FALSE,
                   "onSquareClick", Note("none", None))

\* the move the callback of setTimeout gives to makeAMove, with the
\* promotion of the move selected: the fault C13 excludes
TimerMoveAsSelected(selectedMove) ==
  [from |-> selectedMove.from, to |-> selectedMove.to,
   promotion |-> IF selectedMove.promotion = "" THEN "q"
                 ELSE selectedMove.promotion]

\* the move the callback of setTimeout gives to makeAMove
TimerMove(selectedMove) ==
  [from |-> selectedMove.from, to |-> selectedMove.to, promotion |-> "q"]

\* the thinking timer expires: the callback of setTimeout runs
TimerFires ==
  \E t \in timers :
    IF t.selectedMove # None
    THEN makeAMove(TimerMove(t.selectedMove), t.view, View, timers \ {t},
                   "timer", t.selectedMove)
    ELSE Render(View, timers \ {t}, FALSE, "timer", Note("none", None))

resetGame ==
  Render([View EXCEPT !.game = Chess(DEFAULT_POSITION), !.moveHistory = <<>>,
                      !.moveFrom = "", !.possibleMoves = <<>>,
                      !.timeLeft = [white |-> selectedTimeControl.initial,
                                    black |-> selectedTimeControl.initial],
                      !.isTimerRunning = FALSE],
         timers, TRUE, "resetGame", Note("none", None))

\* the Undo button is disabled while moveHistory is empty
undoLastMove ==
  /\ moveHistory # <<>>
  /\ LET gameCopy == CopyOf(game)
         undone == IF isPlayingComputer THEN Undo(Undo(gameCopy))
                   ELSE Undo(gameCopy)
         n == IF isPlayingComputer THEN 2 ELSE 1
     IN Render([View EXCEPT !.game = undone,
                            !.moveHistory = SubSeq(moveHistory, 1,
                                                   Len(moveHistory) - n),
                            !.moveFrom = "", !.possibleMoves = <<>>,
                            !.isTimerRunning = FALSE],
               timers, TRUE, "undoLastMove", Note("none", None))

\* the mode button: setIsPlayingComputer(!isPlayingComputer); resetGame()
toggleMode ==
  Render([View EXCEPT !.isPlayingComputer = ~isPlayingComputer,
                      !.game = Chess(DEFAULT_POSITION), !.moveHistory = <<>>,
                      !.moveFrom = "", !.possibleMoves = <<>>,
                      !.timeLeft = [white |-> selectedTimeControl.initial,
                                    black |-> selectedTimeControl.initial],
                      !.isTimerRunning = FALSE],
         timers, TRUE, "toggleMode", Note("none", None))

\* the difficulty select, shown in computer mode
setDifficulty ==
  /\ isPlayingComputer
  /\ \E d \in Difficulties \ {difficulty} :
       Render([View EXCEPT !.difficulty = d], timers, TRUE, "setDifficulty",
              Note("none", None))

\* the time controls chosen in the model: the default and the one with an
\* increment
TimeControlInputs == {TIME_CONTROLS[4], TIME_CONTROLS[5]}

\* the time-control select
setTimeControl ==
  \E newTimeControl \in TimeControlInputs \ {selectedTimeControl} :
    Render([View EXCEPT !.selectedTimeControl = newTimeControl,
                        !.timeLeft = [white |-> newTimeControl.initial,
                                      black |-> newTimeControl.initial]],
           timers, FALSE, "setTimeControl", Note("none", None))

\* the seconds the clock of player is let run between two other events: one
\* second while the clock is within MaxTicks of its initial value, or all
\* that is left of it
Seconds(player) ==
  {n \in {1, timeLeft[player]} :
     /\ n > 0
     /\ n < timeLeft[player] =>
          selectedTimeControl.initial - timeLeft[player] < MaxTicks}

\* the callback of setInterval, which exists while isTimerRunning and the
\* game is not over, run once a second: the clock of the side to move is
\* Math.max(0, prev - 1); then the render and the time-out effect
Tick ==
  /\ isTimerRunning
  /\ ~IsGameOver(game)
  /\ LET currentPlayer == IF Turn(game) = "w" THEN "white" ELSE "black"
     IN \E n \in Seconds(currentPlayer) \cup
                 (IF timeLeft[currentPlayer] = 0 THEN {1} ELSE {}) :
          LET newTime == Max(0, timeLeft[currentPlayer] - n)
              after == [timeLeft EXCEPT ![currentPlayer] = newTime]
          IN Render([View EXCEPT !.timeLeft = after,
                                 !.isTimerRunning =
                                   after.white # 0 /\ after.black # 0],
                    timers, FALSE, "tick", Note("ticked", None))

Init ==
  /\ InitComponent
  /\ run = NoRun
  /\ probe = None

Next ==
  \/ onDrop
  \/ onSquareClick
  \/ TimerFires
  \/ resetGame
  \/ undoLastMove
  \/ toggleMode
  \/ setDifficulty
  \/ setTimeControl

Spec == Init /\ [][Next]_vars

\* the component with its clock running: the events of Spec and the seconds
\* of the clock interval between them
NextClock ==
  \/ Next
  \/ Tick

SpecClock == Init /\ [][NextClock]_vars

\* the component when a timeout that stays pending expires: setTimeout runs
\* its callback after THINKING_TIME unless clearTimeout is called first
SpecLive == Spec /\ WF_vars(TimerFires)

(***************************************************************************)
(* The claims                                                              *)
(***************************************************************************)
\* C1: when resetGame or the mode button runs while a computer move is
\* pending, that move is discarded: no timer is pending after the handler,
\* and at all times a pending timer holds the game and the move history of
\* the current render, so a move selected before a reset is never applied to
\* the position after it.
C1_ResetDiscardsPendingMove ==
  /\ (last.op \in {"resetGame", "toggleMode"} /\ last.pending) => timers = {}
  /\ \A t \in timers : t.view.game = game /\ t.view.moveHistory = moveHistory

\* C1, its case: the game was reset while the thinking timer was pending
C1_Witness == last.op = "resetGame" /\ last.pending

\* C2: for a non-empty list of scored moves, at every tier, the move
\* selectMove returns is the move of one of the entries of the list.
C2_SelectedIsCandidate ==
  (run.pc = "done" /\ run.evaluated # <<>>) =>
    \E i \in DOMAIN run.evaluated : run.evaluated[i].move = run.selected

\* C2, its case: a selection from a list of several moves, not its first
C2_Witness ==
  /\ run.pc = "done"
  /\ Len(run.evaluated) >= 2
  /\ run.selected = run.evaluated[2].move

\* C3: during and after the scoring pass the working copy is the copy made
\* of the game before the pass (position and history), so every candidate is
\* applied to the same position; the game itself is the one the pass started
\* from.
C3_ApplyUndoSymmetry ==
  run.pc \in {"map", "select", "done"} =>
    /\ run.gameCopy = CopyOf(run.game)
    /\ Fen(run.gameCopy) = Fen(run.game)
    /\ Moves(run.game) = run.moves

\* C3, its case: every candidate of a longer list was applied and taken back
C3_Witness ==
  /\ run.pc = "select"
  /\ Len(run.entries) > 5

\* C4: at most one computer-move timer is pending.
C4_AtMostOneTimer == Cardinality(timers) <= 1

\* C4, its case: a thinking turn started while the timer of an earlier one
\* was pending
C4_Witness ==
  /\ last.op = "setDifficulty"
  /\ last.pending
  /\ timers # {}

\* C5: when undoLastMove runs while the thinking timer is pending, the timer
\* is cancelled and no computer move is pending for that turn.
C5_UndoCancelsPendingMove ==
  (last.op = "undoLastMove" /\ last.pending) => timers = {}

\* C5, its case: undo while the thinking timer was pending
C5_Witness == last.op = "undoLastMove" /\ last.pending

\* C6: selectMove returns only a move among the first K entries of the
\* ranking, K being 5 for Easy, 3 for Medium, 2 for Hard, and the length of
\* the list when that is less; no entry after the first K is returned, and
\* each of the first K is returned for some draw.
C6_SelectsWithinShortlist ==
  (run.pc \in {"select", "done"} /\ run.evaluated # <<>>) =>
    LET tier == CASE run.difficulty = "Easy" -> 5
                  [] run.difficulty = "Medium" -> 3
                  [] OTHER -> 2
        K == IF Len(run.evaluated) < tier THEN Len(run.evaluated) ELSE tier
        returned == {selectMove(run.evaluated, run.difficulty, draw) :
                       draw \in RandomDraws}
    IN /\ returned = {run.evaluated[i].move : i \in 1..K}
       /\ \A j \in (K + 1)..Len(run.evaluated) :
            run.evaluated[j].move \notin returned
       /\ run.pc = "done" =>
            /\ run.selected \in returned
            /\ \A j \in (K + 1)..Len(run.evaluated) :
                 run.evaluated[j].move # run.selected

\* C6, its case: Easy, more than five candidates, the fifth selected
C6_Witness ==
  /\ run.pc = "done"
  /\ run.difficulty = "Easy"
  /\ Len(run.evaluated) > 5
  /\ run.selected = run.evaluated[5].move

C8_MateScoresHighest ==
  \A i, j \in DOMAIN run.entries :
    LET gives(k) == IsCheckmate(MoveObject(CopyOf(run.game), run.entries[k].move).game)
    IN (gives(i) /\ ~gives(j)) => run.entries[i].score > run.entries[j].score

\* C8, its case: a mating move that also completes the fifty-move count,
\* scored with the least jitter, and a capture scored with the greatest
C8_Witness ==
  /\ run.pc = "select"
  /\ \E i, j \in DOMAIN run.entries :
       LET after(k) == MoveObject(CopyOf(run.game), run.entries[k].move).game
       IN /\ IsCheckmate(after(i)) /\ IsDraw(after(i)) /\ run.draws[i] = 0
          /\ ~IsCheckmate(after(j)) /\ run.entries[j].move.captured # ""
          /\ run.draws[j] = RandDen - 1

\* C9: isInEndgame is true exactly when no queen is on the board or the
\* rooks, knights and bishops on the board are at most 6, whatever the side
\* to move, the castling rights and the en-passant square.
C9_EndgameByBoard ==
  (probe # None /\ probe.op = "isInEndgame") =>
    LET board == probe.pos.board
        queens == Cardinality({s \in DOMAIN board : board[s] \in {"Q", "q"}})
        pieces == Cardinality({s \in DOMAIN board :
                                 board[s] \in {"R", "r", "N", "n", "B", "b"}})
    IN probe.result = (queens = 0 \/ pieces <= 6)

\* C9, its case: no queen on the board, more than 6 rooks, knights and
\* bishops, castling rights left
C9_Witness ==
  /\ probe # None
  /\ probe.op = "isInEndgame"
  /\ \A s \in DOMAIN probe.pos.board : probe.pos.board[s] \notin {"Q", "q"}
  /\ Cardinality({s \in DOMAIN probe.pos.board :
                    probe.pos.board[s] \in {"R", "r", "N", "n", "B", "b"}}) > 6
  /\ probe.pos.castling # <<"-">>

C11_HardScoreTerms ==
  run.difficulty = "Hard" =>
    \A k \in DOMAIN run.entries :
      LET move == run.entries[k].move
          after == MoveObject(CopyOf(run.game), move).game
      IN run.entries[k].score =
           ScoreUnit * (evaluateBasicPosition(move, after)
                        + evaluateAdvancedPositionFirst(after, run.moveCount))
           + 5 * run.draws[k]

\* C11, its case: a candidate scored at the Hard tier
C11_Witness ==
  /\ run.difficulty = "Hard"
  /\ run.pc = "select"
  /\ run.entries # <<>>

\* C12: at the Easy tier, of two captures of the same piece type the one
\* made by the less valuable piece has the larger score without the jitter.
C12_EasyCaptureBonus ==
  run.difficulty = "Easy" =>
    \A i, j \in DOMAIN run.entries :
      LET a == run.entries[i].move
          b == run.entries[j].move
      IN (/\ a.captured # ""
          /\ a.captured = b.captured
          /\ PIECE_VALUES[a.piece] < PIECE_VALUES[b.piece]
          /\ IsCheck(MoveObject(CopyOf(run.game), a).game)
               = IsCheck(MoveObject(CopyOf(run.game), b).game))
         => run.entries[i].score - 50 * run.draws[i]
              > run.entries[j].score - 50 * run.draws[j]

\* C12, its case: a pawn and the queen can take the same knight
C12_Witness ==
  /\ run.difficulty = "Easy"
  /\ \E i, j \in DOMAIN run.entries :
       /\ run.entries[i].move.captured = "n"
       /\ run.entries[j].move.captured = "n"
       /\ run.entries[i].move.piece = "p"
       /\ run.entries[j].move.piece = "q"

\* C13: a move applied to the game promotes to the queen or not at all; the
\* move the expired timer applies is the selected one with the queen for
\* whatever promotion was selected.
C13_PromotionAlwaysQueen ==
  last.outcome = "moved" =>
    LET applied == game.history[Len(game.history)].move IN
    /\ applied.promotion \in {"", "q"}
    /\ last.op = "timer" =>
         /\ applied.from = last.selected.from
         /\ applied.to = last.selected.to
         /\ last.selected.promotion # "" => applied.promotion = "q"

\* C13, its case: the move selected promoted to a knight
C13_Witness ==
  /\ last.op = "timer"
  /\ last.outcome = "moved"
  /\ last.selected.promotion = "n"

\* C14: when the engine rejects the move, the position, the move history,
\* the clocks and the timer-running flag are as before, and no other move is
\* pending in its place.
C14_RejectedMoveChangesNothing ==
  last.outcome = "rejected" =>
    /\ game = last.prev.game
    /\ moveHistory = last.prev.moveHistory
    /\ timeLeft = last.prev.timeLeft
    /\ isTimerRunning = last.prev.isTimerRunning
    /\ last.op = "timer" => timers = {}

\* C14, its case: a drop that is no legal move
C14_Witness ==
  /\ last.op = "onDrop"
  /\ last.outcome = "rejected"

\* C15: with a positive increment, a move completed while the clock runs
\* adds the increment to the clock of the player who made it and leaves the
\* other clock as it was.
C15_IncrementToMover ==
  (/\ last.outcome = "moved"
   /\ last.prev.isTimerRunning
   /\ last.prev.increment > 0) =>
    LET white == Turn(last.prev.game) = "w"
        mover == IF white THEN "white" ELSE "black"
        other == IF white THEN "black" ELSE "white"
    IN /\ timeLeft[mover] = last.prev.timeLeft[mover] + last.prev.increment
       /\ timeLeft[other] = last.prev.timeLeft[other]

\* C15, its case: a move made with the clock running and an increment set
C15_Witness ==
  /\ last.outcome = "moved"
  /\ last.prev.isTimerRunning
  /\ last.prev.increment > 0

\* C16: the move history is as long as the number of plies played to reach
\* the position on the board, undo taking back as many plies as it removes.
C16_UndoRevertsBoard ==
  Len(moveHistory)
    = 2 * (game.pos.full - DEFAULT_POSITION.full)
      + (IF Turn(game) = "b" THEN 1 ELSE 0)

\* C16, its case: a move was undone
C16_Witness == last.op = "undoLastMove"

\* C17: in computer mode with Black to move a click or a drop changes
\* neither the position nor the move history, and every move of Black in
\* computer mode is applied by the expired timer.
C17_HumanInputIgnored ==
  /\ last.outcome = "ignored" =>
       /\ game = last.prev.game
       /\ moveHistory = last.prev.moveHistory
  /\ (last.op \in {"onDrop", "onSquareClick"} /\ last.pending) =>
       last.outcome = "ignored"
  /\ (/\ last.outcome = "moved"
      /\ isPlayingComputer
      /\ Turn(last.prev.game) = "b") => last.op = "timer"

\* C17, its case: a click while the computer is thinking
C17_Witness ==
  /\ last.op = "onSquareClick"
  /\ last.outcome = "ignored"
  /\ last.pending

\* C18: evaluateThreats gives the value of the most valuable piece a legal
\* reply captures, and zero when no legal reply captures, in check or not.
C18_ThreatIsBestCapture ==
  (probe # None /\ probe.op = "evaluateThreats") =>
    LET replies == probe.pos.legal
        values == {PIECE_VALUES[replies[i].captured] :
                     i \in {j \in 1..Len(replies) : replies[j].captured # ""}}
    IN /\ values = {} => probe.result = 0
       /\ values # {} =>
            /\ probe.result \in values
            /\ \A v \in values : v <= probe.result

\* C18, its case: the side to move is in check and no reply captures
C18_Witness ==
  /\ probe # None
  /\ probe.op = "evaluateThreats"
  /\ probe.pos.inCheck
  /\ probe.pos.legal # <<>>
  /\ \A i \in 1..Len(probe.pos.legal) : probe.pos.legal[i].captured = ""

\* C19: when every Black pawn has a White pawn in front of it on its file
\* (towards the first rank), no file earns the passed-pawn bonus: the term
\* is the penalties for doubled and isolated pawns alone.
C19_BlockedPawnNotPassed ==
  (probe # None /\ probe.op = "evaluateAdvancedPawnStructure") =>
    LET board == probe.pos.board
        Rows(c, letter) == {row \in 0..7 : PieceAt(board, row, c) = letter}
        blocked == \A c \in 0..7 : \A row \in Rows(c, "p") :
                     \E r \in Rows(c, "P") : r > row
        penalties(c) ==
          (IF Cardinality(Rows(c, "p")) > 1 THEN -30 ELSE 0)
          + (IF /\ Rows(c, "p") # {}
                /\ (c > 0 => Rows(c - 1, "p") = {})
                /\ (c < 7 => Rows(c + 1, "p") = {})
             THEN -25 ELSE 0)
        total[c \in 0..8] == IF c = 8 THEN 0 ELSE penalties(c) + total[c + 1]
    IN blocked => probe.result = total[0]

\* C19, its case: a Black pawn with a White pawn in front of it
C19_Witness ==
  /\ probe # None
  /\ probe.op = "evaluateAdvancedPawnStructure"
  /\ \E c \in 0..7 : \E row \in 0..7 :
       /\ PieceAt(probe.pos.board, row, c) = "p"
       /\ \E r \in (row + 1)..7 : PieceAt(probe.pos.board, r, c) = "P"

\* C20: the king-safety term is zero in the endgame; outside it, it is 60
\* for a castled king (king g8 with rook f8, or king c8 with rook d8) less
\* 10 for each legal move to a square next to the king of Black.
C20_KingSafetyRewardsCastling ==
  (probe # None /\ probe.op = "evaluateKingSafety") =>
    LET board == probe.pos.board
        On(sq, letter) == Index(sq) \in DOMAIN board /\ board[Index(sq)] = letter
        castled == \/ On(Sq("g", "8"), "k") /\ On(Sq("f", "8"), "r")
                   \/ On(Sq("c", "8"), "k") /\ On(Sq("d", "8"), "r")
    IN probe.result =
         IF isInEndgame(Chess(probe.pos)) THEN 0
         ELSE (IF castled THEN 60 ELSE 0)
              - 10 * countAttacksNearKing(Chess(probe.pos))

\* C20, its case: outside the endgame, the king of Black castled
C20_Witness ==
  /\ probe # None
  /\ probe.op = "evaluateKingSafety"
  /\ ~isInEndgame(Chess(probe.pos))
  /\ PieceAt(probe.pos.board, RowOf(Sq("g", "8")), ColOf(Sq("g", "8"))) = "k"
  /\ PieceAt(probe.pos.board, RowOf(Sq("f", "8")), ColOf(Sq("f", "8"))) = "r"

\* C21: in computer mode, with Black to move and the game not over, a
\* timeout is pending, and in the end its move of Black is applied and the
\* turn is White's, or the game is reset or the mode switched.
C21_ComputerEventuallyMoves ==
  /\ []((isPlayingComputer /\ Turn(game) = "b" /\ ~IsGameOver(game))
          => timers # {})
  /\ (isPlayingComputer /\ Turn(game) = "b" /\ ~IsGameOver(game))
       ~> \/ /\ last.op = "timer"
             /\ last.outcome = "moved"
             /\ Turn(game) = "w"
          \/ last.op \in {"resetGame", "toggleMode"}

\* C21, its case: the expired timer applied the move of Black in computer
\* mode and White is to move
C21_Witness ==
  /\ isPlayingComputer
  /\ last.op = "timer"
  /\ last.outcome = "moved"
  /\ Turn(game) = "w"
  /\ timers = {}

\* C22: from a state in which a clock is at zero, no handler applies a move
\* and no clock changes until the game is reset.
C22_TimeOutEndsPlay ==
  (/\ last.prev # None
   /\ last.prev.timeLeft.white = 0 \/ last.prev.timeLeft.black = 0) =>
    /\ game = last.prev.game
    /\ timeLeft = last.prev.timeLeft

\* C22, its case: a handler ran with a clock at zero
C22_Witness ==
  /\ last.prev # None
  /\ last.prev.timeLeft.white = 0 \/ last.prev.timeLeft.black = 0
  /\ last.op \in {"onDrop", "onSquareClick", "timer"}

\* C23: a pending timeout holds the game, the move history and the
\* difficulty of the present render and a move that is legal in it; the
\* move the expired timer applies is applied to the position whose moves
\* were scored for it.
C23_NoStaleMove ==
  /\ \A t \in timers :
       /\ t.view.game = game
       /\ t.view.moveHistory = moveHistory
       /\ t.view.difficulty = difficulty
       /\ \E i \in 1..Len(Moves(game)) : Moves(game)[i] = t.selectedMove
  /\ (last.op = "timer" /\ last.outcome = "moved") =>
       LET before == last.prev.game
           made == Move(CopyOf(before), last.selected.from, last.selected.to,
                        "q")
       IN /\ \E i \in 1..Len(Moves(before)) : Moves(before)[i] = last.selected
          /\ made.ok
          /\ game = made.game
          /\ moveHistory = Append(last.prev.moveHistory, made.result.san)

\* C23, its case: the thinking turn was started again by an undo, and the
\* timer of the second turn expired
C23_Witness ==
  /\ last.op = "timer"
  /\ last.outcome = "moved"
  /\ Len(moveHistory) = 1
  /\ Len(last.prev.moveHistory) = 0
====
